---- MODULE Spec2Model ----
(***************************************************************************)
(* The SU3 codec of styx-rs/su3: serialise (src/ser.rs, cookie_factory)    *)
(* and deserialise (src/de.rs, nom) over in-memory byte buffers.           *)
(* A byte buffer is a sequence over 0..255.  The nom and cookie_factory    *)
(* combinators the two functions are built from are modelled by what they  *)
(* do on a buffer: consume a prefix or fail, append to the sink or fail.   *)
(***************************************************************************)
EXTENDS Integers, Sequences, FiniteSets, TLC

VARIABLES pc, su3, sink, serResult, data, deResult, twin, twinResult,
          resink, reResult

vars == <<pc, su3, sink, serResult, data, deResult, twin, twinResult,
          resink, reResult>>

(***************************************************************************)
(* Bounds of the explored inputs.                                          *)
(***************************************************************************)
MaxVersionPad == 1      \* raw_version lengths 16 .. 16 + MaxVersionPad
MaxSignerLen == 1       \* raw_signer_id lengths 0 .. MaxSignerLen
MaxContentLen == 1      \* raw_content lengths 0 .. MaxContentLen
MaxSigExcess == 1       \* raw_signature up to this much longer than the table
MaxCapDeficit == 1      \* a fixed sink lacks 0 .. MaxCapDeficit bytes
MaxTrailing == 2        \* bytes appended after a complete record
MaxEnumCode == 9        \* enum codes 0 .. MaxEnumCode written into a header
MaxTailCut == 2         \* bytes cut off the end of a complete record

(***************************************************************************)
(* Constants of the program.                                               *)
(***************************************************************************)
MIN_VERSION_LENGTH == 16

\* b"I2Psu3"
MAGIC_BYTES == <<73, 50, 80, 115, 117, 51>>

SignatureTypes == {"DsaSha1", "EcdsaSha256P256", "EcdsaSha384P384",
                   "EcdsaSha512P521", "RsaSha2562048", "RsaSha3843072",
                   "RsaSha5124096", "EddsaSha512Ed25519ph"}

FileTypes == {"Zip", "Xml", "Html", "XmlGz", "TxtGz", "Dmg", "Exe"}

ContentTypes == {"Unknown", "RouterUpdate", "Plugin", "ReseedData",
                 "NewsFeed", "BlocklistFeed"}

\* `signature_type as u16`
SignatureTypeCode(t) ==
    CASE t = "DsaSha1" -> 0
      [] t = "EcdsaSha256P256" -> 1
      [] t = "EcdsaSha384P384" -> 2
      [] t = "EcdsaSha512P521" -> 3
      [] t = "RsaSha2562048" -> 4
      [] t = "RsaSha3843072" -> 5
      [] t = "RsaSha5124096" -> 6
      [] t = "EddsaSha512Ed25519ph" -> 8

\* `file_type as u8`
FileTypeCode(t) ==
    CASE t = "Zip" -> 0
      [] t = "Xml" -> 1
      [] t = "Html" -> 2
      [] t = "XmlGz" -> 3
      [] t = "TxtGz" -> 4
      [] t = "Dmg" -> 5
      [] t = "Exe" -> 6

\* `content_type as u8`
ContentTypeCode(t) ==
    CASE t = "Unknown" -> 0
      [] t = "RouterUpdate" -> 1
      [] t = "Plugin" -> 2
      [] t = "ReseedData" -> 3
      [] t = "NewsFeed" -> 4
      [] t = "BlocklistFeed" -> 5

\* length with the P-521 signature taken as 2 * 64 bytes.
length_p521_128(t) ==
    CASE t = "DsaSha1" -> 40
      [] t \in {"EcdsaSha256P256", "EddsaSha512Ed25519ph"} -> 64
      [] t = "EcdsaSha384P384" -> 96
      [] t = "EcdsaSha512P521" -> 128
      [] t = "RsaSha2562048" -> 256
      [] t = "RsaSha3843072" -> 384
      [] t = "RsaSha5124096" -> 512

\* SignatureType::length
length(t) ==
    CASE t = "DsaSha1" -> 40
      [] t \in {"EcdsaSha256P256", "EddsaSha512Ed25519ph"} -> 64
      [] t = "EcdsaSha384P384" -> 96
      [] t = "EcdsaSha512P521" -> 132
      [] t = "RsaSha2562048" -> 256
      [] t = "RsaSha3843072" -> 384
      [] t = "RsaSha5124096" -> 512

(***************************************************************************)
(* Byte-buffer helpers.                                                    *)
(***************************************************************************)
Min(a, b) == IF a < b THEN a ELSE b

Prefix(s, n) == SubSeq(s, 1, n)

Suffix(s, n) == SubSeq(s, n + 1, Len(s))

Zeros(n) == [i \in 1..n |-> 0]

(***************************************************************************)
(* nom parsers (the `complete` flavour).  A result is                      *)
(*   [ok, rest, out]  on success and  [ok, sev, code]  on failure,         *)
(* where sev is nom::Err's variant and code the ErrorKind.                 *)
(***************************************************************************)
POk(rest, out) == [ok |-> TRUE, rest |-> rest, out |-> out,
                   sev |-> "none", code |-> "none"]

PErr(sev, code) == [ok |-> FALSE, rest |-> <<>>, out |-> 0,
                    sev |-> sev, code |-> code]

\* tag comparing no more than the first byte.
tag_first_byte(t, i) ==
    IF Len(i) >= Len(t) /\ i[1] = t[1]
    THEN POk(Suffix(i, Len(t)), t)
    ELSE PErr("Error", "Tag")

\* bytes::complete::tag: anything but a full match is ErrorKind::Tag,
\* a too-short input included.
tag(t, i) ==
    IF Len(i) >= Len(t) /\ Prefix(i, Len(t)) = t
    THEN POk(Suffix(i, Len(t)), t)
    ELSE PErr("Error", "Tag")

\* take giving the bytes there are when there are too few.
take_clamped(count, i) ==
    POk(Suffix(i, Min(count, Len(i))), Prefix(i, Min(count, Len(i))))

\* bytes::complete::take: too few bytes is ErrorKind::Eof.
take(count, i) ==
    IF Len(i) >= count
    THEN POk(Suffix(i, count), Prefix(i, count))
    ELSE PErr("Error", "Eof")

\* number::complete::be_u8
be_u8(i) ==
    IF Len(i) < 1 THEN PErr("Error", "Eof")
    ELSE POk(Suffix(i, 1), i[1])

\* be_u16 reading the low byte first.
be_u16_swapped(i) ==
    IF Len(i) < 2 THEN PErr("Error", "Eof")
    ELSE POk(Suffix(i, 2), i[2] * 256 + i[1])

\* number::complete::be_u16
be_u16(i) ==
    IF Len(i) < 2 THEN PErr("Error", "Eof")
    ELSE POk(Suffix(i, 2), i[1] * 256 + i[2])

\* A count no buffer of the model reaches: the value of a 64-bit field of
\* 2^31 or more is kept as this, so that the arithmetic stays in range.
Huge == 32767 * 65536 + 65535

\* number::complete::be_u64
be_u64(i) ==
    IF Len(i) < 8 THEN PErr("Error", "Eof")
    ELSE POk(Suffix(i, 8),
             IF i[1] + i[2] + i[3] + i[4] > 0 \/ i[5] >= 128
             THEN Huge
             ELSE ((i[5] * 256 + i[6]) * 256 + i[7]) * 256 + i[8])

\* skip: value((), parser)
skip(r) == IF r.ok THEN POk(r.rest, 0) ELSE r

\* One parser of a sequence::tuple, applied to the input i.
Apply(p, i) ==
    CASE p.op = "skip_tag" -> skip(tag(p.arg, i))
      [] p.op = "skip_u8" -> skip(be_u8(i))
      [] p.op = "skip_take" -> skip(take(p.arg, i))
      [] p.op = "be_u8" -> be_u8(i)
      [] p.op = "be_u16" -> be_u16(i)
      [] p.op = "be_u64" -> be_u64(i)
      [] p.op = "take" -> take(p.arg, i)

P(op, arg) == [op |-> op, arg |-> arg]

\* sequence::tuple: the parsers in order, the first failure returned.
RECURSIVE tuple(_, _, _)
tuple(ps, i, outs) ==
    IF ps = <<>> THEN POk(i, outs)
    ELSE LET r == Apply(Head(ps), i)
         IN IF r.ok THEN tuple(Tail(ps), r.rest, Append(outs, r.out))
            ELSE r

(***************************************************************************)
(* try_from_number!: TryFrom<integer> for the three enums.                 *)
(***************************************************************************)
EOk(v) == [ok |-> TRUE, v |-> v]

EErr == [ok |-> FALSE, v |-> "none"]

\* The signature codes taken as the contiguous range 0..7.
SignatureType_try_from_contiguous(num) ==
    IF num = 7 THEN EOk("EddsaSha512Ed25519ph")
    ELSE IF \E t \in SignatureTypes : SignatureTypeCode(t) = num
    THEN EOk(CHOOSE t \in SignatureTypes : SignatureTypeCode(t) = num)
    ELSE EErr

SignatureType_try_from(num) ==
    IF \E t \in SignatureTypes : SignatureTypeCode(t) = num
    THEN EOk(CHOOSE t \in SignatureTypes : SignatureTypeCode(t) = num)
    ELSE EErr

FileType_try_from(num) ==
    IF \E t \in FileTypes : FileTypeCode(t) = num
    THEN EOk(CHOOSE t \in FileTypes : FileTypeCode(t) = num)
    ELSE EErr

ContentType_try_from(num) ==
    IF \E t \in ContentTypes : ContentTypeCode(t) = num
    THEN EOk(CHOOSE t \in ContentTypes : ContentTypeCode(t) = num)
    ELSE EErr

(***************************************************************************)
(* Su3 and deserialise.                                                    *)
(***************************************************************************)
Su3(st, ft, ct, v, s, c, g) ==
    [signature_type |-> st, file_type |-> ft, content_type |-> ct,
     raw_version |-> v, raw_signer_id |-> s, raw_content |-> c,
     raw_signature |-> g]

NoSu3 == Su3("none", "none", "none", <<>>, <<>>, <<>>, <<>>)

DOk(rest, x) == [kind |-> "Ok", sev |-> "none", rest |-> rest, su3 |-> x]

DErr(sev, code) == [kind |-> code, sev |-> sev, rest |-> <<>>, su3 |-> NoSu3]

NoResult == [kind |-> "none", sev |-> "none", rest |-> <<>>, su3 |-> NoSu3]

\* The header with the format-version byte required to be 0.
HeaderParsers_versioned ==
    << P("skip_tag", MAGIC_BYTES),
       P("skip_u8", 0),
       P("skip_tag", <<0>>),
       P("be_u16", 0),
       P("be_u16", 0),
       P("skip_u8", 0),
       P("be_u8", 0),
       P("skip_u8", 0),
       P("be_u8", 0),
       P("be_u64", 0),
       P("skip_u8", 0),
       P("be_u8", 0),
       P("skip_u8", 0),
       P("be_u8", 0),
       P("skip_take", 12) >>

HeaderParsers ==
    << P("skip_tag", MAGIC_BYTES),
       P("skip_u8", 0),
       P("skip_u8", 0),
       P("be_u16", 0),
       P("be_u16", 0),
       P("skip_u8", 0),
       P("be_u8", 0),
       P("skip_u8", 0),
       P("be_u8", 0),
       P("be_u64", 0),
       P("skip_u8", 0),
       P("be_u8", 0),
       P("skip_u8", 0),
       P("be_u8", 0),
       P("skip_take", 12) >>

\* The fixed header: the first tuple(...) of deserialise.
header(d) == tuple(HeaderParsers, d, <<>>)

\* The four length-prefixed regions: the second tuple(...) of deserialise.
regions(h) ==
    LET signature_length == h.out[5]
        version_length == h.out[7]
        signer_id_length == h.out[9]
        content_length == h.out[10]
    IN tuple(<< P("take", version_length),
                P("take", signer_id_length),
                P("take", content_length),
                P("take", signature_length) >>, h.rest, <<>>)

\* construct returning no remainder.
construct_no_rest(h, b) ==
    LET st == SignatureType_try_from(h.out[4])
        ft == FileType_try_from(h.out[12])
        ct == ContentType_try_from(h.out[14])
    IN IF ~st.ok THEN DErr("Failure", "Digit")
       ELSE IF ~ft.ok THEN DErr("Failure", "Digit")
       ELSE IF ~ct.ok THEN DErr("Failure", "Digit")
       ELSE DOk(<<>>, Su3(st.v, ft.v, ct.v,
                          b.out[1], b.out[2], b.out[3], b.out[4]))

\* The Su3 literal with its three try_into()?, and the Ok((rest, su3)).
construct(h, b) ==
    LET st == SignatureType_try_from(h.out[4])
        ft == FileType_try_from(h.out[12])
        ct == ContentType_try_from(h.out[14])
    IN IF ~st.ok THEN DErr("Failure", "Digit")
       ELSE IF ~ft.ok THEN DErr("Failure", "Digit")
       ELSE IF ~ct.ok THEN DErr("Failure", "Digit")
       ELSE DOk(b.rest, Su3(st.v, ft.v, ct.v,
                            b.out[1], b.out[2], b.out[3], b.out[4]))

\* deserialise refusing a version length below the format's minimum.
deserialise_asserting(d) ==
    LET h == header(d)
    IN IF ~h.ok THEN DErr(h.sev, h.code)
       ELSE IF h.out[7] < MIN_VERSION_LENGTH THEN DErr("Error", "Verify")
       ELSE LET b == regions(h)
            IN IF ~b.ok THEN DErr(b.sev, b.code)
               ELSE construct(h, b)

deserialise(d) ==
    LET h == header(d)
    IN IF ~h.ok THEN DErr(h.sev, h.code)
       ELSE LET b == regions(h)
            IN IF ~b.ok THEN DErr(b.sev, b.code)
               ELSE construct(h, b)

(***************************************************************************)
(* cookie_factory serialisers over a sink W: Write.  A sink is             *)
(*   [buf, cap]: the bytes written so far and the capacity; a growable     *)
(* sink (a Vec) has cap = Growable, a `&mut [u8]` has its length.          *)
(* A result is [res, sink]; res is "Ok" or the GenError variant.           *)
(***************************************************************************)
Growable == 0 - 1

Sink(buf, cap) == [buf |-> buf, cap |-> cap]

\* Write::write: as many bytes as fit, and how many that was.
write(w, bytes) ==
    LET n == IF w.cap = Growable THEN Len(bytes)
             ELSE Min(Len(bytes), w.cap - Len(w.buf))
    IN [n |-> n, sink |-> Sink(w.buf \o Prefix(bytes, n), w.cap)]

\* try_write!: a short write is GenError::BufferTooSmall.
try_write(w, bytes) ==
    LET r == write(w, bytes)
    IN [res |-> IF r.n < Len(bytes) THEN "BufferTooSmall" ELSE "Ok",
        sink |-> r.sink]

\* u8::to_be_bytes
u8_to_be_bytes(v) == << v % 256 >>

\* u16::to_be_bytes
u16_to_be_bytes(v) == << (v \div 256) % 256, v % 256 >>

\* u64::to_be_bytes, for the values below 2^31 a length of the model takes.
u64_to_be_bytes(v) ==
    << 0, 0, 0, 0, (v \div 16777216) % 256, (v \div 65536) % 256,
       (v \div 256) % 256, v % 256 >>

\* as u8
as_u8(n) == n % 256

\* One serialiser of a sequence::tuple, as the bytes it writes.
GenBytes(g) ==
    CASE g.op = "slice" -> g.arg
      [] g.op = "be_u8" -> u8_to_be_bytes(g.arg)
      [] g.op = "be_u16" -> u16_to_be_bytes(g.arg)
      [] g.op = "be_u64" -> u64_to_be_bytes(g.arg)

G(op, arg) == [op |-> op, arg |-> arg]

\* sequence::tuple of serialisers: in order, stopping at the first error.
RECURSIVE gen_tuple(_, _)
gen_tuple(gs, w) ==
    IF gs = <<>> THEN [res |-> "Ok", sink |-> w]
    ELSE LET r == try_write(w, GenBytes(Head(gs)))
         IN IF r.res = "Ok" THEN gen_tuple(Tail(gs), r.sink) ELSE r

\* Fields with the file-type and content-type codes in each other's place.
Fields_swapped_enums(x) ==
    << G("slice", MAGIC_BYTES),
       G("be_u8", 0),
       G("be_u8", 0),
       G("be_u16", SignatureTypeCode(x.signature_type)),
       G("be_u16", length(x.signature_type)),
       G("be_u8", 0),
       G("be_u8", as_u8(Len(x.raw_version))),
       G("be_u8", 0),
       G("be_u8", as_u8(Len(x.raw_signer_id))),
       G("be_u64", Len(x.raw_content)),
       G("be_u8", 0),
       G("be_u8", ContentTypeCode(x.content_type)),
       G("be_u8", 0),
       G("be_u8", FileTypeCode(x.file_type)),
       G("slice", Zeros(12)),
       G("slice", x.raw_version),
       G("slice", x.raw_signer_id),
       G("slice", x.raw_content),
       G("slice", x.raw_signature) >>

Fields(x) ==
    << G("slice", MAGIC_BYTES),
       G("be_u8", 0),
       G("be_u8", 0),
       G("be_u16", SignatureTypeCode(x.signature_type)),
       G("be_u16", length(x.signature_type)),
       G("be_u8", 0),
       G("be_u8", as_u8(Len(x.raw_version))),
       G("be_u8", 0),
       G("be_u8", as_u8(Len(x.raw_signer_id))),
       G("be_u64", Len(x.raw_content)),
       G("be_u8", 0),
       G("be_u8", FileTypeCode(x.file_type)),
       G("be_u8", 0),
       G("be_u8", ContentTypeCode(x.content_type)),
       G("slice", Zeros(12)),
       G("slice", x.raw_version),
       G("slice", x.raw_signer_id),
       G("slice", x.raw_content),
       G("slice", x.raw_signature) >>

\* serialise checking the version length only after the magic is written.
serialise_late_check(x, w) ==
    LET m == try_write(w, MAGIC_BYTES)
    IN IF Len(x.raw_version) < MIN_VERSION_LENGTH
       THEN [res |-> "CustomError", sink |-> m.sink]
       ELSE gen_tuple(Fields(x), w)

serialise(x, w) ==
    IF Len(x.raw_version) < MIN_VERSION_LENGTH
    THEN [res |-> "CustomError", sink |-> w]
    ELSE gen_tuple(Fields(x), w)

(***************************************************************************)
(* The inputs: packages built the way examples/write.rs builds one, from   *)
(* Su3::default() with fields overridden, and the sink handed to serialise.*)
(***************************************************************************)
\* The bytes of a region: a run that differs from region to region.
Fill(n, base) == [i \in 1..n |-> (base + i) % 256]

VersionLens ==
    {MIN_VERSION_LENGTH - 1}
    \cup (MIN_VERSION_LENGTH .. MIN_VERSION_LENGTH + MaxVersionPad)
    \cup {256 + MIN_VERSION_LENGTH}

SignerLens == (0 .. MaxSignerLen) \cup {256 + 1}

ContentLens == 0 .. MaxContentLen

SignatureLens(t) == {0} \cup (length(t) .. length(t) + MaxSigExcess)

\* file_type and content_type: one of the two overridden, the other default.
EnumPairs ==
    {<<ft, "Unknown">> : ft \in FileTypes}
    \cup {<<"Zip", ct>> : ct \in ContentTypes}

PackagesOf(st) ==
    {Su3(st, e[1], e[2], Fill(v, 48), Fill(s, 96), Fill(c, 128), Fill(g, 192)) :
        e \in EnumPairs, v \in VersionLens, s \in SignerLens,
        c \in ContentLens, g \in SignatureLens(st)}

HEADER_LEN == Len(MAGIC_BYTES) + 34

\* The bytes a complete encoding of x takes.
EncodedLen(x) ==
    HEADER_LEN + Len(x.raw_version) + Len(x.raw_signer_id)
    + Len(x.raw_content) + Len(x.raw_signature)

\* A Vec, or a `&mut [u8]` of the encoding's length or some bytes short of it.
Capacities(x) == {Growable} \cup {EncodedLen(x) - k : k \in 0 .. MaxCapDeficit}

Init ==
    /\ pc = "start"
    /\ \E st \in SignatureTypes : su3 \in PackagesOf(st)
    /\ \E cap \in Capacities(su3) : sink = Sink(<<>>, cap)
    /\ serResult = "none"
    /\ data = <<>>
    /\ deResult = NoResult
    /\ twin = <<>>
    /\ twinResult = NoResult
    /\ resink = Sink(<<>>, 0)
    /\ reResult = "none"

(***************************************************************************)
(* The operations.                                                         *)
(***************************************************************************)
\* su3.serialise()(sink)
Serialise ==
    /\ pc = "start"
    /\ LET r == serialise(su3, sink)
       IN /\ serResult' = r.res
          /\ sink' = r.sink
    /\ pc' = "serialised"
    /\ UNCHANGED <<su3, data, deResult, twin, twinResult, resink, reResult>>

\* The bytes a successful serialise wrote become the input of deserialise.
Load ==
    /\ pc = "serialised"
    /\ serResult = "Ok"
    /\ data' = sink.buf
    /\ pc' = "loaded"
    /\ UNCHANGED <<su3, sink, serResult, deResult, twin, twinResult,
                   resink, reResult>>

\* Su3::deserialise(data), and of the twin buffer when there is one.
Deserialise ==
    /\ pc \in {"loaded", "tampered", "scrambled"}
    /\ deResult' = deserialise(data)
    /\ twinResult' = IF pc = "scrambled" THEN deserialise(twin) ELSE NoResult
    /\ pc' = "decoded"
    /\ UNCHANGED <<su3, sink, serResult, data, twin, resink, reResult>>

\* parsed_su3.serialise() into vec![0; raw_su3.len()], as tests/ser_de.rs.
Reserialise ==
    /\ pc = "decoded"
    /\ deResult.kind = "Ok"
    /\ LET r == serialise(deResult.su3, Sink(<<>>, Len(data)))
       IN /\ reResult' = r.res
          /\ resink' = r.sink
    /\ pc' = "done"
    /\ UNCHANGED <<su3, sink, serResult, data, deResult, twin, twinResult>>

Next == Serialise \/ Load \/ Deserialise \/ Reserialise

Spec == Init /\ [][Next]_vars

(***************************************************************************)
(* Buffers that no serialise produced: one field of a valid encoding       *)
(* overwritten, the buffer cut short or extended, the unused header bytes  *)
(* changed.                                                                *)
(***************************************************************************)
\* The bytes of d from byte offset off on replaced by bytes.
SetBytes(d, off, bytes) ==
    [i \in 1..Len(d) |->
        IF i > off /\ i <= off + Len(bytes) THEN bytes[i - off] ELSE d[i]]

\* The header offsets deserialise reads through skip(...).
UnusedOffsets == {6, 7, 12, 14, 24, 26} \cup (28 .. 39)

Masks == {{o} : o \in UnusedOffsets} \cup {UnusedOffsets}

\* The bytes of d at the offsets of m complemented.
Scrambled(d, m) ==
    [i \in 1..Len(d) |-> IF (i - 1) \in m THEN 255 - d[i] ELSE d[i]]

TamperPackages ==
    {Su3(st, e[1], e[2],
         Fill(MIN_VERSION_LENGTH + MaxVersionPad, 48), Fill(MaxSignerLen, 96),
         Fill(MaxContentLen, 128), Fill(length(st), 192)) :
        st \in {"DsaSha1", "EcdsaSha512P521", "RsaSha5124096",
                "EddsaSha512Ed25519ph"},
        e \in {<<"Zip", "Unknown">>, <<"Exe", "BlocklistFeed">>}}

InitT ==
    /\ pc = "start"
    /\ su3 \in TamperPackages
    /\ sink = Sink(<<>>, Growable)
    /\ serResult = "none"
    /\ data = <<>>
    /\ deResult = NoResult
    /\ twin = <<>>
    /\ twinResult = NoResult
    /\ resink = Sink(<<>>, 0)
    /\ reResult = "none"

Tamper(d) ==
    /\ pc = "loaded"
    /\ data' = d
    /\ pc' = "tampered"
    /\ UNCHANGED <<su3, sink, serResult, deResult, twin, twinResult,
                   resink, reResult>>

CorruptMagic ==
    \E o \in 0 .. Len(MAGIC_BYTES) - 1, b \in {0, 255} :
        Tamper(SetBytes(data, o, <<b>>))

SetSignatureType ==
    \E code \in (0 .. MaxEnumCode) \cup {255, 256, 65535} :
        Tamper(SetBytes(data, 8, u16_to_be_bytes(code)))

SetSignatureLength ==
    \E g \in {0, 65535}
             \cup {length(su3.signature_type) + k : k \in 1 .. MaxSigExcess}
             \cup {length(su3.signature_type) - k : k \in 1 .. MaxSigExcess} :
        Tamper(SetBytes(data, 10, u16_to_be_bytes(g)))

SetVersionLength ==
    \E v \in (0 .. MIN_VERSION_LENGTH + MaxVersionPad + 1) \cup {255} :
        Tamper(SetBytes(data, 13, u8_to_be_bytes(v)))

SetSignerIdLength ==
    \E s \in (0 .. MaxSignerLen + 1) \cup {255} :
        Tamper(SetBytes(data, 15, u8_to_be_bytes(s)))

SetContentLength ==
    \E bytes \in {u64_to_be_bytes(c) : c \in 0 .. MaxContentLen + 1}
                 \cup {[i \in 1..8 |-> 255], <<0, 0, 0, 1, 0, 0, 0, 0>>} :
        Tamper(SetBytes(data, 16, bytes))

SetFileType ==
    \E code \in (0 .. MaxEnumCode) \cup {255} :
        Tamper(SetBytes(data, 25, u8_to_be_bytes(code)))

SetContentType ==
    \E code \in (0 .. MaxEnumCode) \cup {255} :
        Tamper(SetBytes(data, 27, u8_to_be_bytes(code)))

Truncate ==
    \E n \in 0 .. Len(data) - 1 :
        /\ n < HEADER_LEN \/ n >= Len(data) - MaxTailCut
        /\ Tamper(Prefix(data, n))

AppendTrailing ==
    \E k \in 1 .. MaxTrailing : Tamper(data \o Fill(k, 224))

\* A second buffer that differs from the first at unused offsets only.
ScrambleUnused ==
    /\ pc \in {"loaded", "tampered"}
    /\ \E m \in Masks :
        /\ \E o \in m : o < Len(data)
        /\ twin' = data
        /\ data' = Scrambled(data, m)
    /\ pc' = "scrambled"
    /\ UNCHANGED <<su3, sink, serResult, deResult, twinResult, resink, reResult>>

NextT ==
    \/ Serialise
    \/ Load
    \/ CorruptMagic
    \/ SetSignatureType
    \/ SetSignatureLength
    \/ SetVersionLength
    \/ SetSignerIdLength
    \/ SetContentLength
    \/ SetFileType
    \/ SetContentType
    \/ Truncate
    \/ AppendTrailing
    \/ ScrambleUnused
    \/ Deserialise
    \/ Reserialise

SpecT == InitT /\ [][NextT]_vars

(***************************************************************************)
(* Properties.                                                             *)
(***************************************************************************)
\* The sink can take the whole encoding of the package.
HasRoom ==
    \/ sink.cap = Growable
    \/ sink.cap >= 40 + Len(su3.raw_version) + Len(su3.raw_signer_id)
                   + Len(su3.raw_content) + Len(su3.raw_signature)

\* The signature lengths of the format's table.
TableLength(t) ==
    CASE t = "DsaSha1" -> 40
      [] t = "EcdsaSha256P256" -> 64
      [] t = "EddsaSha512Ed25519ph" -> 64
      [] t = "EcdsaSha384P384" -> 96
      [] t = "EcdsaSha512P521" -> 132
      [] t = "RsaSha2562048" -> 256
      [] t = "RsaSha3843072" -> 384
      [] t = "RsaSha5124096" -> 512

\* The package round-trips: serialise succeeded and deserialise of the
\* bytes it wrote gave the package back with nothing left over.
RoundTrips ==
    /\ pc # "start" => serResult = "Ok"
    /\ pc \in {"decoded", "done"} =>
           /\ deResult.kind = "Ok"
           /\ deResult.su3 = su3
           /\ deResult.rest = <<>>

\* C1 as stated: every package whose raw_version has 16 bytes or more,
\* whatever its raw_signature, round-trips (given a sink with room for it).
C1_RoundTripAnyPackage ==
    (Len(su3.raw_version) >= 16 /\ HasRoom) => RoundTrips

\* C1, amended: a package round-trips when its raw_version has 16 to 255
\* bytes, its raw_signer_id at most 255 bytes and its raw_signature exactly
\* signature_type.length() bytes, and the sink has room for the encoding.
C1_RoundTrip ==
    ( /\ Len(su3.raw_version) \in 16 .. 255
      /\ Len(su3.raw_signer_id) <= 255
      /\ Len(su3.raw_signature) = length(su3.signature_type)
      /\ HasRoom ) => RoundTrips

C1_Witness ==
    /\ pc = "decoded"
    /\ su3.signature_type = "RsaSha5124096"
    /\ Len(su3.raw_signature) = 512
    /\ Len(su3.raw_version) = 16 + MaxVersionPad
    /\ Len(su3.raw_signer_id) = MaxSignerLen
    /\ sink.cap = Len(sink.buf)
    /\ deResult = DOk(<<>>, su3)

\* C6: serialise of a package whose raw_version is shorter than 16 bytes
\* returns the length-validation error and leaves the sink as it was, with
\* nothing written; with 16 bytes or more that error is not returned.
C6_PreValidation ==
    pc # "start" =>
        /\ Len(su3.raw_version) < 16 =>
               /\ serResult = "CustomError"
               /\ sink.buf = <<>>
        /\ Len(su3.raw_version) >= 16 => serResult \in {"Ok", "BufferTooSmall"}

C6_Witness ==
    /\ pc = "serialised"
    /\ Len(su3.raw_version) = 15
    /\ serResult = "CustomError"
    /\ sink.buf = <<>>

\* C7: in every encoding serialise produced, bytes 10..11 hold the table's
\* length for signature_type, whatever the length of raw_signature, which
\* is written out whole at the end; a differing length raises no error.
C7_CanonicalSignatureLength ==
    /\ serResult = "Ok" =>
           /\ sink.buf[11] * 256 + sink.buf[12] = TableLength(su3.signature_type)
           /\ Len(sink.buf) = 40 + Len(su3.raw_version) + Len(su3.raw_signer_id)
                              + Len(su3.raw_content) + Len(su3.raw_signature)
           /\ Suffix(sink.buf, Len(sink.buf) - Len(su3.raw_signature))
                  = su3.raw_signature
    /\ (pc # "start" /\ Len(su3.raw_version) >= 16 /\ HasRoom) => serResult = "Ok"

C7_Witness ==
    /\ serResult = "Ok"
    /\ su3.signature_type = "EcdsaSha512P521"
    /\ Len(su3.raw_signature) = 132 + MaxSigExcess
    /\ sink.buf[11] * 256 + sink.buf[12] = 132

(***************************************************************************)
(* The header of a buffer read by the offsets of the format's layout.      *)
(***************************************************************************)
MagicAt(d) ==
    /\ Len(d) >= 6
    /\ <<d[1], d[2], d[3], d[4], d[5], d[6]>> = <<73, 50, 80, 115, 117, 51>>

SignatureCodeAt(d) == d[9] * 256 + d[10]

SignatureLengthAt(d) == d[11] * 256 + d[12]

VersionLengthAt(d) == d[14]

SignerIdLengthAt(d) == d[16]

ContentLengthAt(d) ==
    IF d[17] + d[18] + d[19] + d[20] > 0 \/ d[21] >= 128 THEN Huge
    ELSE d[21] * 16777216 + d[22] * 65536 + d[23] * 256 + d[24]

FileCodeAt(d) == d[26]

ContentCodeAt(d) == d[28]

\* Where the four regions end, for a buffer that holds them.
RegionsEnd(d) ==
    40 + VersionLengthAt(d) + SignerIdLengthAt(d) + ContentLengthAt(d)
    + SignatureLengthAt(d)

\* The magic is right and the buffer holds the header and the four regions.
WellFramed(d) ==
    /\ Len(d) >= 40
    /\ MagicAt(d)
    /\ ContentLengthAt(d) <= Len(d)
    /\ RegionsEnd(d) <= Len(d)

CodesKnown(d) ==
    /\ SignatureCodeAt(d) \in {0, 1, 2, 3, 4, 5, 6, 8}
    /\ FileCodeAt(d) \in 0 .. 6
    /\ ContentCodeAt(d) \in 0 .. 5

AllUnusedZero(d) ==
    \A o \in {6, 7, 12, 14, 24, 26} \cup (28 .. 39) : d[o + 1] = 0

\* C2 as stated: every buffer deserialise accepts with nothing left over
\* is reproduced byte for byte by serialise of the decoded package.
C2_ReencodeAnyAccepted ==
    (pc = "done" /\ deResult.rest = <<>>) =>
        /\ reResult = "Ok"
        /\ resink.buf = data

\* C2, amended: a buffer deserialise accepts with nothing left over is
\* reproduced byte for byte by serialise of the decoded package when its
\* unused header bytes are all 0, its version length is 16 or more and its
\* signature-length field is the table's length for its signature type.
C2_Reencode ==
    ( /\ pc = "done"
      /\ deResult.rest = <<>>
      /\ AllUnusedZero(data)
      /\ VersionLengthAt(data) >= 16
      /\ SignatureLengthAt(data) = TableLength(deResult.su3.signature_type) ) =>
        /\ reResult = "Ok"
        /\ resink.buf = data

C2_Witness ==
    /\ pc = "done"
    /\ deResult.rest = <<>>
    /\ AllUnusedZero(data)
    /\ data # sink.buf
    /\ deResult.su3.signature_type # su3.signature_type
    /\ SignatureLengthAt(data) = TableLength(deResult.su3.signature_type)
    /\ reResult = "Ok"
    /\ resink.buf = data

\* The input of deserialise is a proper prefix of a valid encoding that
\* ends inside the 40-byte header.
TruncatedInHeader ==
    /\ pc = "decoded"
    /\ Len(data) < 40
    /\ data = Prefix(sink.buf, Len(data))

\* C3 as stated: the first n bytes of a valid encoding, for every n below
\* 40, fail to decode with the insufficient-data error.
C3_TruncatedAnywhere ==
    TruncatedInHeader => deResult.kind = "Eof"

\* C3, amended: the first n bytes of a valid encoding fail to decode with
\* the insufficient-data error for 6 <= n < 40, and with the magic-mismatch
\* error for n < 6.
C3_Truncated ==
    TruncatedInHeader =>
        /\ Len(data) >= 6 => deResult.kind = "Eof" /\ deResult.sev = "Error"
        /\ Len(data) < 6 => deResult.kind = "Tag" /\ deResult.sev = "Error"
        /\ deResult.su3 = NoSu3

C3_Witness ==
    /\ TruncatedInHeader
    /\ Len(data) = 39
    /\ deResult.kind = "Eof"

\* C4: a buffer with the right magic that holds all four regions decodes
\* to the unknown-code failure, with no package, when its signature-type
\* code is outside {0,1,2,3,4,5,6,8}, its file-type code outside 0..6 or
\* its content-type code outside 0..5, and otherwise to the variants that
\* have exactly those codes.
C4_UnknownCodes ==
    (pc = "decoded" /\ WellFramed(data)) =>
        IF CodesKnown(data)
        THEN /\ deResult.kind = "Ok"
             /\ SignatureTypeCode(deResult.su3.signature_type)
                    = SignatureCodeAt(data)
             /\ FileTypeCode(deResult.su3.file_type) = FileCodeAt(data)
             /\ ContentTypeCode(deResult.su3.content_type) = ContentCodeAt(data)
        ELSE /\ deResult.kind = "Digit"
             /\ deResult.sev = "Failure"
             /\ deResult.su3 = NoSu3

C4_Witness ==
    /\ pc = "decoded"
    /\ WellFramed(data)
    /\ SignatureCodeAt(data) = 7
    /\ FileCodeAt(data) \in 0 .. 6
    /\ ContentCodeAt(data) \in 0 .. 5
    /\ deResult.kind = "Digit"

\* C5: a buffer that does not start with the six bytes "I2Psu3" fails to
\* decode with the magic-mismatch error, whatever follows.
C5_MagicMismatch ==
    (pc = "decoded" /\ ~MagicAt(data)) =>
        /\ deResult.kind = "Tag"
        /\ deResult.sev = "Error"
        /\ deResult.su3 = NoSu3

C5_Witness ==
    /\ pc = "decoded"
    /\ Len(data) = Len(sink.buf)
    /\ data[1] # 73
    /\ Suffix(data, 1) = Suffix(sink.buf, 1)
    /\ deResult.kind = "Tag"

C9_ExactConsumption ==
    /\ (pc \in {"decoded", "done"} /\ deResult.kind = "Ok") =>
           LET v == VersionLengthAt(data)
               s == SignerIdLengthAt(data)
               c == ContentLengthAt(data)
               g == SignatureLengthAt(data)
           IN /\ WellFramed(data)
              /\ deResult.su3.raw_version = SubSeq(data, 41, 40 + v)
              /\ deResult.su3.raw_signer_id = SubSeq(data, 41 + v, 40 + v + s)
              /\ deResult.su3.raw_content
                     = SubSeq(data, 41 + v + s, 40 + v + s + c)
              /\ deResult.su3.raw_signature
                     = SubSeq(data, 41 + v + s + c, 40 + v + s + c + g)
              /\ deResult.rest = SubSeq(data, 41 + v + s + c + g, Len(data))
    /\ ( /\ pc = "decoded"
         /\ Len(data) > Len(sink.buf)
         /\ Prefix(data, Len(sink.buf)) = sink.buf ) =>
           /\ deResult.kind = "Ok"
           /\ deResult.su3 = su3
           /\ deResult.rest = Suffix(data, Len(sink.buf))

C9_Witness ==
    /\ pc = "decoded"
    /\ Len(data) = Len(sink.buf) + MaxTrailing
    /\ deResult.kind = "Ok"
    /\ Len(deResult.rest) = MaxTrailing
    /\ deResult.su3 = su3

\* The two buffers have one length and agree at every offset but the
\* unused ones of the header.
AgreeOffUnused(d, e) ==
    /\ Len(d) = Len(e)
    /\ \A i \in 1 .. Len(d) :
           (i - 1) \notin {6, 7, 12, 14, 24, 26} \cup (28 .. 39) => d[i] = e[i]

\* C10: two buffers that differ at unused header offsets only decode to
\* the same outcome: the same error, or equal packages and remainders.
C10_UnusedBytesIgnored ==
    ( /\ pc \in {"decoded", "done"}
      /\ twinResult.kind # "none"
      /\ AgreeOffUnused(data, twin) ) =>
        deResult = twinResult

C10_Witness ==
    /\ pc = "decoded"
    /\ twinResult.kind = "Ok"
    /\ AgreeOffUnused(data, twin)
    /\ \A o \in {6, 7, 12, 14, 24, 26} \cup (28 .. 39) : data[o + 1] = 255
    /\ deResult = twinResult

====
